---- MODULE Spec2Model ----
(***************************************************************************)
(* Balance-mutation engine of FinancialWellnessHub (server/storage.ts,     *)
(* server/routes.ts, shared schema).                                       *)
(*                                                                         *)
(* The store is PostgreSQL reached through a pg Pool (server/db.ts) with   *)
(* no isolation level set anywhere, and db.transaction() is called without *)
(* a config, so every transaction runs READ COMMITTED:                     *)
(*   - a SELECT sees the rows committed when the statement runs, plus the  *)
(*     transaction's own uncommitted writes;                               *)
(*   - an INSERT is invisible to others until COMMIT; the serial id comes  *)
(*     from a sequence that is never rolled back;                          *)
(*   - an UPDATE locks the row until COMMIT/ROLLBACK; an UPDATE of a row   *)
(*     locked by another transaction waits, then overwrites;               *)
(*   - COMMIT publishes all writes at once, ROLLBACK discards them.        *)
(* Each request handler is an async function: every `await` of a database  *)
(* statement is a point where other requests interleave. One action below  *)
(* is one statement together with the synchronous code that follows it up  *)
(* to the next statement.                                                  *)
(*                                                                         *)
(* Monetary values are numeric strings in the store and are converted with *)
(* parseFloat / toString around every computation; the model draws them    *)
(* from integral decimal strings, on which these conversions are exact,    *)
(* and writes them as integers.                                            *)
(***************************************************************************)
EXTENDS Integers, Sequences, FiniteSets, TLC

\* ------------------------------------------------------------------ bounds
MaxAccounts == 2
MaxTx == 2
MaxGoals == 1
MaxEntries == 6

Procs == {1, 2}
Users == {1, 2}
OpeningBalances == {1}
Amounts == {1, 2}
Types == {"debit", "credit"}
Descriptions == {"rent"}
Categories == {"Food"}
Merchants == {"Shop"}
AccountNumbers == {<<"9", "1", "0", "0", "7">>}

\* request bodies the zod schemas let through beyond the well-formed ones above:
\* amount and type are z.string(), so any numeric string and any type pass
AnyBalances == {2}
AnyAmounts == {-1, 0, 1}
AnyTypes == {"debit", "credit", "fee"}

\* targetAmount of POST /api/goals and amount of PATCH /api/goals/:goalId are
\* z.string() as well
Targets == {0, 2}
GoalAmounts == {-1, 1, 2}
GoalIds == 1..(MaxGoals + 1)

Moods == {"sad", "happy"}

\* how the external text-generation call of generateFinancialAdvice ends: with
\* a reply of the requested shape, by throwing, or with content that is not
\* the requested JSON
ExternalCalls == {"reply", "throws", "unparsable"}

\* moods a journal may hold: mood is z.string(), so beside the named moods any
\* text passes, also text that reads as an array index
AnyMoods == {"sad", "happy", "7", "10"}

\* a request body may carry any userId, and fields the route is not meant to
\* take from it
BodyUserIds == Users
BodyCurrentAmounts == {0, 5}

\* the endpoints registered behind ensureAuthenticated
Routes == {"GET /api/accounts", "POST /api/accounts", "GET /api/transactions",
           "GET /api/accounts/:accountId/transactions", "POST /api/transactions",
           "POST /api/transfer", "GET /api/goals", "POST /api/goals",
           "PATCH /api/goals/:goalId", "GET /api/journal", "POST /api/journal",
           "GET /api/ai/advice", "POST /api/ai/advice"}

\* ids a request may name: the serial ids 1..MaxAccounts and one id that no
\* account ever gets
AccountIds == 1..(MaxAccounts + 1)

VARIABLES
    bankAccounts,     \* committed bank_accounts rows, indexed by serial id
    transactions,     \* committed transactions rows (the ledger)
    transactionsSeq,  \* last value handed out by transactions.id's sequence
    pend,             \* per request: uncommitted writes of its db.transaction
    pc,               \* per request: the statement it is about to run
    req,              \* per request: the call / request body being served
    loc,              \* per request: the handler's local variables
    response,         \* the outcome most recently handed back to a caller
    begun,            \* number of database transactions begun so far: the clock
    opening,          \* history: balance each account was created with
    selfTransfer,     \* history: a transfer with fromAccountId = toAccountId committed
    savingGoals,      \* committed saving_goals rows, indexed by serial id
    pendGoals,        \* per request: uncommitted saving_goals writes of its db.transaction
    journalEntries,   \* committed journal_entries rows, indexed by serial id
    aiAdvices         \* committed ai_advices rows, indexed by serial id

\* the tables the balance-mutation engine never touches
otherTables == <<savingGoals, pendGoals, journalEntries, aiAdvices>>

vars == <<bankAccounts, transactions, transactionsSeq, pend, pc, req, loc,
          response, begun, opening, selfTransfer, otherTables>>

\* ------------------------------------------------------------------ rows
NoReq == [kind |-> "none", origin |-> "none", session |-> TRUE, user |-> 0,
          accountId |-> 0, fromAccountId |-> 0, toAccountId |-> 0, goalId |-> 0,
          amount |-> 0,
          description |-> "", category |-> "", merchant |-> "", type |-> "",
          date |-> 0]

\* `const [row] = await ...` : a result list of at most one row; ledger is
\* no local of the code: the committed ledger when a call that lists it began
NoLoc == [sourceAccount |-> <<>>, targetAccount |-> <<>>,
          sourceTransaction |-> <<>>, targetTransaction |-> <<>>,
          account |-> <<>>, newTransaction |-> <<>>, newBalance |-> 0,
          goal |-> <<>>, userAccounts |-> <<>>, allTransactions |-> <<>>,
          ledger |-> {}]

\* the external text-generation call made while a request was served: the
\* mood stated in its prompt and how the call ended
NoCall == [mood |-> "none", outcome |-> "none"]

\* what a caller gets back: the HTTP status (or the promise's fate for a direct
\* caller of the storage method), the error message, the ids of the rows in
\* the returned body; session: the request carried an authenticated session;
\* touched: the handler called a storage method; goal: the saving goal in the
\* returned body; user: the session user of a request that created rows or
\* listed its transactions; call: the external call made for it
NoResponse == [kind |-> "none", status |-> "none", error |-> "none", rows |-> <<>>,
               session |-> TRUE, touched |-> FALSE, goal |-> <<>>,
               user |-> 0, call |-> NoCall]

EmptyUpd == [a \in {} |-> 0]
NoPend == [ins |-> {}, upd |-> EmptyUpd]

Put(u, a, v) == [x \in (DOMAIN u) \cup {a} |-> IF x = a THEN v ELSE u[x]]

InTx == {"ct_insert", "ct_select", "ct_update", "ct_commit",
         "tf_selectSource", "tf_selectTarget", "tf_insertDebit",
         "tf_insertCredit", "tf_updateSource", "tf_updateTarget", "tf_commit"}

Free(p) == pc[p] = "idle"

\* how a failure reaches the caller: the route's catch answers 400, a direct
\* caller of the storage method gets a rejected promise
Failure(origin) == IF origin = "api" THEN "400" ELSE "rejected"
Success(origin) == IF origin = "api" THEN "201" ELSE "resolved"

\* ------------------------------------------------------------------ store
AccountExists(id) == id \in 1..Len(bankAccounts)

\* tx.select().from(bankAccounts).where(eq(bankAccounts.id, id))
SelectAccount(p, id) ==
    IF AccountExists(id)
    THEN <<[bankAccounts[id] EXCEPT
              !.balance = IF id \in DOMAIN pend[p].upd THEN pend[p].upd[id] ELSE @]>>
    ELSE <<>>

\* slip: the rows are not filtered by their owner
IsOfAnyone(userId, row) == TRUE

\* where(eq(<table>.userId, userId))
IsOf(userId, row) == row.userId = userId

\* db.select().from(bankAccounts).where(eq(bankAccounts.userId, userId))
getBankAccountsByUserId(userId) ==
    {bankAccounts[i] : i \in {j \in 1..Len(bankAccounts) : IsOf(userId, bankAccounts[j])}}

\* the orders in which a SELECT may hand back a set of rows
Orderings(rows) ==
    {order \in [1..Cardinality(rows) -> rows] :
        \A i, j \in 1..Cardinality(rows) : i # j => order[i] # order[j]}

NewestFirst(rows) ==
    \A i, j \in 1..Len(rows) : i < j => rows[i].date >= rows[j].date

\* db.select().from(transactions).where(eq(transactions.accountId, accountId))
\*   .orderBy(desc(transactions.date)): the results it may hand back, rows of
\* equal date in any order
getTransactionsByAccountId(accountId) ==
    {order \in Orderings({r \in transactions : r.accountId = accountId}) :
        NewestFirst(order)}

RowIds(rows) == [i \in 1..Len(rows) |-> rows[i].id]

\* a row lock taken by another open transaction's UPDATE
LockedByOther(p, id) == \E q \in Procs \ {p} : id \in DOMAIN pend[q].upd

\* slip: the second inserted row is not published
CommittedTransactionsPartial(p) ==
    transactions \cup {r \in pend[p].ins : \A o \in pend[p].ins : r.id <= o.id}

\* slip: the commit leaves only the new rows in the ledger
CommittedTransactionsOnly(p) == pend[p].ins

\* COMMIT of p's db.transaction: every write becomes visible at once
CommittedTransactions(p) == transactions \cup pend[p].ins

CommittedAccounts(p) ==
    [i \in 1..Len(bankAccounts) |->
        IF i \in DOMAIN pend[p].upd
        THEN [bankAccounts[i] EXCEPT !.balance = pend[p].upd[i]]
        ELSE bankAccounts[i]]

\* ROLLBACK of p's db.transaction: nothing it wrote remains
RolledBack(p) == [pend EXCEPT ![p] = NoPend]

Reversed(rows) == [i \in 1..Len(rows) |-> rows[Len(rows) + 1 - i]]

\* db.select().from(journalEntries).where(eq(journalEntries.userId, userId))
\*   .orderBy(desc(journalEntries.date)): date is the time of the INSERT, and
\* journalEntries is indexed in the order of the INSERTs
getJournalEntriesByUserId(userId) ==
    Reversed(SelectSeq(journalEntries, LAMBDA entry : IsOf(userId, entry)))

\* db.select().from(savingGoals).where(eq(savingGoals.id, id))
getSavingGoal(id) == IF id \in 1..Len(savingGoals) THEN <<savingGoals[id]>> ELSE <<>>

\* tx.select().from(savingGoals).where(eq(savingGoals.id, id))
SelectGoal(p, id) ==
    IF id \in 1..Len(savingGoals)
    THEN <<IF id \in DOMAIN pendGoals[p]
           THEN [savingGoals[id] EXCEPT
                    !.currentAmount = pendGoals[p][id].currentAmount,
                    !.completed = pendGoals[p][id].completed]
           ELSE savingGoals[id]>>
    ELSE <<>>

\* a saving_goals row lock taken by another open transaction's UPDATE
GoalLockedByOther(p, id) == \E q \in Procs \ {p} : id \in DOMAIN pendGoals[q]

\* COMMIT of p's updateSavingGoal transaction
CommittedGoals(p) ==
    [i \in 1..Len(savingGoals) |->
        IF i \in DOMAIN pendGoals[p]
        THEN [savingGoals[i] EXCEPT
                 !.currentAmount = pendGoals[p][i].currentAmount,
                 !.completed = pendGoals[p][i].completed]
        ELSE savingGoals[i]]

\* ------------------------------------------------------------------ bound
\* at most MaxTx database transactions are begun in a run, not counting the
\* single INSERTs that create accounts and goals (bounded by MaxAccounts and
\* MaxGoals)
Fits == begun < MaxTx

\* ------------------------------------------------------------------ pure steps
\* slip: the body is spread after the session user's id
WithUserIdOfBody(body, userId) == body

\* routes.ts: { ...req.body, userId: user.id }
WithUserId(body, userId) == [body EXCEPT !.userId = userId]

\* insertBankAccountSchema.parse: the picked columns, anything else stripped
insertBankAccountSchema(body) ==
    [userId |-> body.userId, accountNumber |-> body.accountNumber, balance |-> body.balance]

\* insertSavingGoalSchema.parse: currentAmount and completed are not picked
insertSavingGoalSchema(body) ==
    [userId |-> body.userId, targetAmount |-> body.targetAmount]

\* insertJournalEntrySchema.parse
insertJournalEntrySchema(body) == [userId |-> body.userId, mood |-> body.mood]

\* insertAiAdviceSchema.parse: response is not picked
insertAiAdviceSchema(body) == [userId |-> body.userId]

\* the property keys that are array indices, with their numeric values
ArrayIndex == [key \in {"7", "10"} |-> IF key = "7" THEN 7 ELSE 10]

\* context.journalEntries.slice(0, 5)
recentJournalEntries(entries) ==
    SubSeq(entries, 1, IF Len(entries) < 5 THEN Len(entries) ELSE 5)

\* moodCounts[mood] after the forEach
MoodCount(mood, entries) ==
    Cardinality({i \in 1..Len(entries) : entries[i].mood = mood})

\* the keys of moodCounts in the order the forEach created them
RECURSIVE CreationOrder(_)
CreationOrder(entries) ==
    IF entries = <<>> THEN <<>>
    ELSE LET before == CreationOrder(SubSeq(entries, 1, Len(entries) - 1))
             mood == entries[Len(entries)].mood IN
         IF \E i \in 1..Len(before) : before[i] = mood
         THEN before ELSE Append(before, mood)

RECURSIVE Ascending(_)
Ascending(keys) ==
    IF keys = {} THEN <<>>
    ELSE LET least == CHOOSE k \in keys : \A o \in keys : ArrayIndex[k] <= ArrayIndex[o] IN
         <<least>> \o Ascending(keys \ {least})

IsArrayIndex(key) == key \in DOMAIN ArrayIndex
IsNoArrayIndex(key) == ~IsArrayIndex(key)

\* Object.entries(moodCounts): array-index keys first, in ascending numeric
\* order, then the other keys in creation order
ObjectEntries(keys) ==
    Ascending({keys[i] : i \in 1..Len(keys)} \cap DOMAIN ArrayIndex)
        \o SelectSeq(keys, IsNoArrayIndex)

\* slip: a later mood with the same count takes over
ExceedsOrEquals(count, maxCount) == count >= maxCount

\* openai.ts: count > maxCount
Exceeds(count, maxCount) == count > maxCount

\* the for loop over Object.entries(moodCounts)
RECURSIVE PrimaryMoodLoop(_, _, _, _)
PrimaryMoodLoop(keys, entries, maxCount, mood) ==
    IF keys = <<>> THEN mood
    ELSE LET count == MoodCount(Head(keys), entries) IN
         IF Exceeds(count, maxCount)
         THEN PrimaryMoodLoop(Tail(keys), entries, count, Head(keys))
         ELSE PrimaryMoodLoop(Tail(keys), entries, maxCount, mood)

\* openai.ts: primaryMood as it stands when the prompt is built
primaryMood(entries) ==
    LET recent == recentJournalEntries(entries) IN
    IF Len(recent) > 0
    THEN PrimaryMoodLoop(ObjectEntries(CreationOrder(recent)), recent, 0, "neutral")
    ELSE "neutral"

\* where the comparator (a, b) => b.date - a.date puts a row that follows all
\* of sorted in the input: Array.prototype.sort is stable
InsertByDate(sorted, row) ==
    LET before == Cardinality({i \in 1..Len(sorted) : sorted[i].date >= row.date}) IN
    SubSeq(sorted, 1, before) \o <<row>> \o SubSeq(sorted, before + 1, Len(sorted))

\* storage.ts getTransactionsByUserId: allTransactions.sort(...)
RECURSIVE SortByDate(_)
SortByDate(rows) ==
    IF rows = <<>> THEN <<>>
    ELSE InsertByDate(SortByDate(SubSeq(rows, 1, Len(rows) - 1)), rows[Len(rows)])

\* openai.ts: the string the catch block returns
Apology == "apology"

\* slip: a failure of the external call is handed on instead of the apology
generateFinancialAdvicePropagating(call) == IF call = "reply" THEN "advice" ELSE call

\* openai.ts generateFinancialAdvice: the rendered reply, or the apology when
\* anything inside the try block throws (the call itself, JSON.parse, a
\* missing field of the parsed reply)
generateFinancialAdvice(call) == IF call = "reply" THEN "advice" ELSE Apology

\* what generateFinancialAdvice hands back
AdviceResponses == {generateFinancialAdvice(call) : call \in ExternalCalls}

\* slip: the ownership test is skipped
IsUserAccountAlways(accounts, accountId) == TRUE

\* routes.ts: accounts.some(account => account.id === accountId)
IsUserAccount(accounts, accountId) == \E account \in accounts : account.id = accountId

\* slip: a debit above the balance is not applied
NewBalanceChecked(currentBalance, type, amount) ==
    IF type = "debit"
    THEN IF amount > currentBalance THEN currentBalance ELSE currentBalance - amount
    ELSE currentBalance + amount

\* storage.ts createTransaction: debit subtracts, anything else adds
NewBalance(currentBalance, type, amount) ==
    IF type = "debit" THEN currentBalance - amount ELSE currentBalance + amount

\* storage.ts transferFunds: !sourceAccount || !targetAccount
AccountsMissing(sourceAccount, targetAccount) ==
    sourceAccount = <<>> \/ targetAccount = <<>>

\* slip: the funds check lets an amount one above the balance through
InsufficientFundsOffByOne(sourceBalance, transferAmount) == sourceBalance + 1 < transferAmount

\* slip: the funds check also refuses an amount equal to the balance
InsufficientFundsOrEqual(sourceBalance, transferAmount) == sourceBalance <= transferAmount

\* storage.ts transferFunds: sourceBalance < transferAmount
InsufficientFunds(sourceBalance, transferAmount) == sourceBalance < transferAmount

\* storage.ts transferFunds: balance written to the source account
SourceBalanceAfter(sourceBalance, transferAmount) == sourceBalance - transferAmount

\* slip: a repeated transfer is taken for a duplicate and credits nothing
TargetBalanceAfterOnce(targetBalance, transferAmount) ==
    IF \E r \in transactions : r.category = "Transfer" /\ r.amount = transferAmount
    THEN targetBalance ELSE targetBalance + transferAmount

\* storage.ts transferFunds: balance written to the target account
TargetBalanceAfter(targetBalance, transferAmount) == targetBalance + transferAmount

\* storage.ts createSavingGoal: the row inserted for a new goal
NewGoal(id, userId, targetAmount) ==
    [id |-> id, userId |-> userId, targetAmount |-> targetAmount,
     currentAmount |-> 0, completed |-> FALSE]

\* slip: the ownership test of the goal is skipped
IsUserGoalAlways(goal, userId) == TRUE

\* routes.ts PATCH /api/goals/:goalId: !(!goal || goal.userId !== user.id)
IsUserGoal(goal, userId) == goal # <<>> /\ goal[1].userId = userId

\* slip: the deposit replaces the current amount
NewAmountReplaced(currentAmount, additionalAmount) == additionalAmount

\* storage.ts updateSavingGoal: currentAmount + additionalAmount
NewAmount(currentAmount, additionalAmount) == currentAmount + additionalAmount

\* storage.ts updateSavingGoal: completed: newAmount >= targetAmount
Completed(newAmount, targetAmount) == newAmount >= targetAmount

GoalReq(origin, goalId, amount) ==
    [NoReq EXCEPT !.kind = "addFunds", !.origin = origin,
                  !.goalId = goalId, !.amount = amount]

\* accountNumber.substring(accountNumber.length - 4)
Last4(accountNumber) ==
    IF Len(accountNumber) <= 4 THEN accountNumber
    ELSE SubSeq(accountNumber, Len(accountNumber) - 3, Len(accountNumber))

\* storage.ts transferFunds: the debit row inserted on the source account
DebitRow(id, fromAccountId, transferAmount, description) ==
    [id |-> id, accountId |-> fromAccountId, amount |-> transferAmount,
     description |-> <<"Transfer: ", description>>, type |-> "debit",
     category |-> "Transfer", merchant |-> "NeuroBank"]

\* slip: the credit row is booked on the source account
CreditRowOnSource(id, toAccountId, transferAmount, sourceAccount) ==
    [id |-> id, accountId |-> sourceAccount.id, amount |-> transferAmount,
     description |-> <<"Transfer from account ", Last4(sourceAccount.accountNumber)>>,
     type |-> "credit", category |-> "Transfer", merchant |-> "NeuroBank"]

\* storage.ts transferFunds: the credit row inserted on the target account
CreditRow(id, toAccountId, transferAmount, sourceAccount) ==
    [id |-> id, accountId |-> toAccountId, amount |-> transferAmount,
     description |-> <<"Transfer from account ", Last4(sourceAccount.accountNumber)>>,
     type |-> "credit", category |-> "Transfer", merchant |-> "NeuroBank"]

\* date: timestamp("date").defaultNow() of a row inserted without a date:
\* now() is the start time of the inserting transaction
Dated(row, date) ==
    [column \in (DOMAIN row) \cup {"date"} |->
        IF column = "date" THEN date ELSE row[column]]

\* the row createTransaction inserts: the caller's fields plus the serial id
InsertedRow(id, r) ==
    [id |-> id, accountId |-> r.accountId, amount |-> r.amount,
     description |-> <<r.description>>, type |-> r.type,
     category |-> r.category, merchant |-> r.merchant]

TransactionReq(origin, accountId, amount, type) ==
    [NoReq EXCEPT !.kind = "createTransaction", !.origin = origin,
                  !.accountId = accountId, !.amount = amount, !.type = type,
                  !.description = "rent", !.category = "Food", !.merchant = "Shop"]

TransferReq(origin, fromAccountId, toAccountId, amount) ==
    [NoReq EXCEPT !.kind = "transfer", !.origin = origin,
                  !.fromAccountId = fromAccountId, !.toAccountId = toAccountId,
                  !.amount = amount, !.description = "rent"]

\* ------------------------------------------------------------------ Init
Init ==
    /\ bankAccounts = <<>>
    /\ transactions = {}
    /\ transactionsSeq = 0
    /\ pend = [p \in Procs |-> NoPend]
    /\ pc = [p \in Procs |-> "idle"]
    /\ req = [p \in Procs |-> NoReq]
    /\ loc = [p \in Procs |-> NoLoc]
    /\ response = NoResponse
    /\ begun = 0
    /\ opening = <<>>
    /\ selfTransfer = FALSE
    /\ savingGoals = <<>>
    /\ pendGoals = [p \in Procs |-> EmptyUpd]
    /\ journalEntries = <<>>
    /\ aiAdvices = <<>>

\* ------------------------------------------------------------------ outcome
\* the handler has returned or thrown: its locals are gone, the caller has
\* the outcome
Finish(p, r) ==
    /\ pc' = [pc EXCEPT ![p] = "idle"]
    /\ req' = [req EXCEPT ![p] = NoReq]
    /\ loc' = [loc EXCEPT ![p] = NoLoc]
    /\ response' = r

Returned(kind, origin, rows) ==
    [kind |-> kind, status |-> Success(origin), error |-> "none", rows |-> rows,
     session |-> TRUE, touched |-> TRUE, goal |-> <<>>, user |-> 0, call |-> NoCall]

Thrown(kind, origin, message) ==
    [kind |-> kind, status |-> Failure(origin), error |-> message, rows |-> <<>>,
     session |-> TRUE, touched |-> TRUE, goal |-> <<>>, user |-> 0, call |-> NoCall]

\* the outcome of a request that carried the given session
By(session, r) == [r EXCEPT !.session = session]

\* the outcome of a request of the given session user
Of(user, r) == [r EXCEPT !.user = user]

Forbidden(kind) ==
    [kind |-> kind, status |-> "403", error |-> "none", rows |-> <<>>,
     session |-> TRUE, touched |-> TRUE, goal |-> <<>>, user |-> 0, call |-> NoCall]

\* ------------------------------------------------------------------ routes
\* The date column of the ledger is read only by the transaction lists. Where
\* a specification serves no such list the column is not followed and every
\* row carries date 0; where it does, a row carries the time at which its
\* transaction began, read off the count of transactions begun.
Undated == {0}
Now == {begun + 1}

\* slip: the middleware calls next() whatever the session
ensureAuthenticatedAlways(session) == TRUE

\* routes.ts ensureAuthenticated: req.isAuthenticated() lets the request on to
\* the handler, anything else is answered 401
ensureAuthenticated(session) == session

\* POST /api/accounts: userId is the session user's, one autocommit INSERT
PostAccountsOn(p, balances) ==
    /\ Free(p)
    /\ Len(bankAccounts) < MaxAccounts
    /\ \E session \in BOOLEAN, user \in Users, balance \in balances,
          accountNumber \in AccountNumbers, bodyUserId \in BodyUserIds :
         /\ ensureAuthenticated(session)
         /\ LET body == [userId |-> bodyUserId, accountNumber |-> accountNumber,
                         balance |-> balance]
                parsedData == insertBankAccountSchema(WithUserId(body, user)) IN
              /\ bankAccounts' = Append(bankAccounts,
                     [id |-> Len(bankAccounts) + 1, userId |-> parsedData.userId,
                      accountNumber |-> parsedData.accountNumber,
                      balance |-> parsedData.balance])
              /\ opening' = Append(opening, parsedData.balance)
         /\ Finish(p, Of(user, By(session, Returned("createAccount", "api", <<>>))))
    /\ UNCHANGED <<transactions, transactionsSeq, pend, begun, selfTransfer, otherTables>>

PostAccounts(p) == PostAccountsOn(p, OpeningBalances)

PostAccountsAny(p) == PostAccountsOn(p, AnyBalances)

\* POST /api/transactions up to the call of storage.createTransaction
PostTransactionsOn(p, amounts, types, dates) ==
    /\ Free(p)
    /\ \E session \in BOOLEAN, user \in Users, accountId \in AccountIds, date \in dates :
         /\ ensureAuthenticated(session)
         /\ LET accounts == getBankAccountsByUserId(user) IN
            IF ~IsUserAccount(accounts, accountId)
            THEN Finish(p, By(session, Forbidden("createTransaction"))) /\ begun' = begun
            ELSE /\ Fits
                 /\ \E amount \in amounts, type \in types :
                      req' = [req EXCEPT ![p] =
                                [TransactionReq("api", accountId, amount, type)
                                    EXCEPT !.session = session, !.user = user,
                                           !.date = date]]
                 /\ pc' = [pc EXCEPT ![p] = "ct_insert"]
                 /\ begun' = begun + 1
                 /\ UNCHANGED <<loc, response>>
    /\ UNCHANGED <<bankAccounts, transactions, transactionsSeq, pend, opening, selfTransfer, otherTables>>

PostTransactions(p) == PostTransactionsOn(p, Amounts, Types, Undated)

PostTransactionsAny(p) == PostTransactionsOn(p, AnyAmounts, AnyTypes, Undated)

PostTransactionsDated(p) == PostTransactionsOn(p, Amounts, Types, Now)

\* POST /api/transfer up to the call of storage.transferFunds
PostTransferOn(p, amounts, dates) ==
    /\ Free(p)
    /\ \E session \in BOOLEAN, user \in Users,
          fromAccountId \in AccountIds, toAccountId \in AccountIds, date \in dates :
         /\ ensureAuthenticated(session)
         /\ LET accounts == getBankAccountsByUserId(user)
                isFromAccountUser == IsUserAccount(accounts, fromAccountId)
                isToAccountUser == IsUserAccount(accounts, toAccountId) IN
            IF ~isFromAccountUser \/ ~isToAccountUser
            THEN Finish(p, By(session, Forbidden("transfer"))) /\ begun' = begun
            ELSE /\ Fits
                 /\ \E amount \in amounts :
                      req' = [req EXCEPT ![p] =
                                [TransferReq("api", fromAccountId, toAccountId, amount)
                                    EXCEPT !.session = session, !.user = user,
                                           !.date = date]]
                 /\ pc' = [pc EXCEPT ![p] = "tf_selectSource"]
                 /\ begun' = begun + 1
                 /\ UNCHANGED <<loc, response>>
    /\ UNCHANGED <<bankAccounts, transactions, transactionsSeq, pend, opening, selfTransfer, otherTables>>

PostTransfer(p) == PostTransferOn(p, Amounts, Undated)

PostTransferAny(p) == PostTransferOn(p, AnyAmounts, Undated)

PostTransferDated(p) == PostTransferOn(p, Amounts, Now)

\* ------------------------------------------------------------------ direct calls
\* storage.createTransaction called by any other caller of IStorage
CallCreateTransaction(p) ==
    /\ Free(p)
    /\ Fits
    /\ \E accountId \in AccountIds, amount \in Amounts, type \in Types :
         req' = [req EXCEPT ![p] = TransactionReq("storage", accountId, amount, type)]
    /\ pc' = [pc EXCEPT ![p] = "ct_insert"]
    /\ begun' = begun + 1
    /\ UNCHANGED <<bankAccounts, transactions, transactionsSeq, pend, loc, response,
                   opening, selfTransfer, otherTables>>

\* storage.transferFunds called by any other caller of IStorage
CallTransferFunds(p) ==
    /\ Free(p)
    /\ Fits
    /\ \E fromAccountId \in AccountIds, toAccountId \in AccountIds, amount \in Amounts :
         req' = [req EXCEPT ![p] =
                   TransferReq("storage", fromAccountId, toAccountId, amount)]
    /\ pc' = [pc EXCEPT ![p] = "tf_selectSource"]
    /\ begun' = begun + 1
    /\ UNCHANGED <<bankAccounts, transactions, transactionsSeq, pend, loc, response,
                   opening, selfTransfer, otherTables>>

\* ------------------------------------------------------------------ createTransaction
\* return transaction
TransactionResult(p) == <<loc[p].newTransaction[1].id>>

\* tx.insert(transactions).values(insertTransaction).returning()
CtInsert(p) ==
    /\ pc[p] = "ct_insert"
    /\ LET newTransaction == Dated(InsertedRow(transactionsSeq + 1, req[p]), req[p].date) IN
         /\ pend' = [pend EXCEPT ![p].ins = @ \cup {newTransaction}]
         /\ loc' = [loc EXCEPT ![p].newTransaction = <<newTransaction>>]
    /\ transactionsSeq' = transactionsSeq + 1
    /\ pc' = [pc EXCEPT ![p] = "ct_select"]
    /\ UNCHANGED <<bankAccounts, transactions, req, response, begun, opening, selfTransfer, otherTables>>

\* tx.select().from(bankAccounts).where(id = accountId); if (account) {...}
CtSelect(p) ==
    /\ pc[p] = "ct_select"
    /\ LET account == SelectAccount(p, req[p].accountId) IN
         IF account # <<>>
         THEN /\ loc' = [loc EXCEPT ![p].account = account,
                                    ![p].newBalance =
                                        NewBalance(account[1].balance, req[p].type, req[p].amount)]
              /\ pc' = [pc EXCEPT ![p] = "ct_update"]
         ELSE /\ loc' = loc
              /\ pc' = [pc EXCEPT ![p] = "ct_commit"]
    /\ UNCHANGED <<bankAccounts, transactions, transactionsSeq, pend, req, response,
                   begun, opening, selfTransfer, otherTables>>

\* tx.update(bankAccounts).set({balance: newBalance}).where(id = account.id)
CtUpdate(p) ==
    /\ pc[p] = "ct_update"
    /\ ~LockedByOther(p, loc[p].account[1].id)
    /\ pend' = [pend EXCEPT ![p].upd = Put(@, loc[p].account[1].id, loc[p].newBalance)]
    /\ pc' = [pc EXCEPT ![p] = "ct_commit"]
    /\ UNCHANGED <<bankAccounts, transactions, transactionsSeq, req, loc, response,
                   begun, opening, selfTransfer, otherTables>>

\* return [newTransaction]; COMMIT; return transaction
CtCommit(p) ==
    /\ pc[p] = "ct_commit"
    /\ transactions' = CommittedTransactions(p)
    /\ bankAccounts' = CommittedAccounts(p)
    /\ pend' = [pend EXCEPT ![p] = NoPend]
    /\ Finish(p, By(req[p].session,
                     Returned("createTransaction", req[p].origin, TransactionResult(p))))
    /\ UNCHANGED <<transactionsSeq, begun, opening, selfTransfer, otherTables>>

\* ------------------------------------------------------------------ transferFunds
\* return { sourceTransaction, targetTransaction }
TransferResult(p) == <<loc[p].sourceTransaction[1].id, loc[p].targetTransaction[1].id>>

\* tx.select().from(bankAccounts).where(id = fromAccountId)
TfSelectSource(p) ==
    /\ pc[p] = "tf_selectSource"
    /\ loc' = [loc EXCEPT ![p].sourceAccount = SelectAccount(p, req[p].fromAccountId)]
    /\ pc' = [pc EXCEPT ![p] = "tf_selectTarget"]
    /\ UNCHANGED <<bankAccounts, transactions, transactionsSeq, pend, req, response,
                   begun, opening, selfTransfer, otherTables>>

\* tx.select().from(bankAccounts).where(id = toAccountId), then both checks;
\* a throw makes the wrapper issue ROLLBACK and rethrow
TfSelectTarget(p) ==
    /\ pc[p] = "tf_selectTarget"
    /\ LET sourceAccount == loc[p].sourceAccount
           targetAccount == SelectAccount(p, req[p].toAccountId) IN
         IF AccountsMissing(sourceAccount, targetAccount)
         THEN /\ Finish(p, By(req[p].session,
                               Thrown("transfer", req[p].origin,
                                      "One or both accounts do not exist")))
              /\ pend' = RolledBack(p)
         ELSE IF InsufficientFunds(sourceAccount[1].balance, req[p].amount)
         THEN /\ Finish(p, By(req[p].session,
                               Thrown("transfer", req[p].origin,
                                      "Insufficient funds for transfer")))
              /\ pend' = RolledBack(p)
         ELSE /\ loc' = [loc EXCEPT ![p].targetAccount = targetAccount]
              /\ pc' = [pc EXCEPT ![p] = "tf_insertDebit"]
              /\ UNCHANGED <<pend, req, response>>
    /\ UNCHANGED <<bankAccounts, transactions, transactionsSeq, begun, opening, selfTransfer, otherTables>>

\* tx.insert(transactions).values({accountId: fromAccountId, type: 'debit', ...})
TfInsertDebit(p) ==
    /\ pc[p] = "tf_insertDebit"
    /\ LET sourceTransaction ==
             Dated(DebitRow(transactionsSeq + 1, req[p].fromAccountId, req[p].amount,
                            req[p].description), req[p].date) IN
         /\ pend' = [pend EXCEPT ![p].ins = @ \cup {sourceTransaction}]
         /\ loc' = [loc EXCEPT ![p].sourceTransaction = <<sourceTransaction>>]
    /\ transactionsSeq' = transactionsSeq + 1
    /\ pc' = [pc EXCEPT ![p] = "tf_insertCredit"]
    /\ UNCHANGED <<bankAccounts, transactions, req, response, begun, opening, selfTransfer, otherTables>>

\* tx.insert(transactions).values({accountId: toAccountId, type: 'credit', ...})
TfInsertCredit(p) ==
    /\ pc[p] = "tf_insertCredit"
    /\ LET targetTransaction ==
             Dated(CreditRow(transactionsSeq + 1, req[p].toAccountId, req[p].amount,
                             loc[p].sourceAccount[1]), req[p].date) IN
         /\ pend' = [pend EXCEPT ![p].ins = @ \cup {targetTransaction}]
         /\ loc' = [loc EXCEPT ![p].targetTransaction = <<targetTransaction>>]
    /\ transactionsSeq' = transactionsSeq + 1
    /\ pc' = [pc EXCEPT ![p] = "tf_updateSource"]
    /\ UNCHANGED <<bankAccounts, transactions, req, response, begun, opening, selfTransfer, otherTables>>

\* tx.update(bankAccounts).set({balance: sourceBalance - transferAmount})
\*   .where(id = fromAccountId)
TfUpdateSource(p) ==
    /\ pc[p] = "tf_updateSource"
    /\ ~LockedByOther(p, req[p].fromAccountId)
    /\ pend' = [pend EXCEPT ![p].upd =
                  Put(@, req[p].fromAccountId,
                      SourceBalanceAfter(loc[p].sourceAccount[1].balance, req[p].amount))]
    /\ pc' = [pc EXCEPT ![p] = "tf_updateTarget"]
    /\ UNCHANGED <<bankAccounts, transactions, transactionsSeq, req, loc, response,
                   begun, opening, selfTransfer, otherTables>>

\* tx.update(bankAccounts).set({balance: targetBalance + transferAmount})
\*   .where(id = toAccountId)
TfUpdateTarget(p) ==
    /\ pc[p] = "tf_updateTarget"
    /\ ~LockedByOther(p, req[p].toAccountId)
    /\ pend' = [pend EXCEPT ![p].upd =
                  Put(@, req[p].toAccountId,
                      TargetBalanceAfter(loc[p].targetAccount[1].balance, req[p].amount))]
    /\ pc' = [pc EXCEPT ![p] = "tf_commit"]
    /\ UNCHANGED <<bankAccounts, transactions, transactionsSeq, req, loc, response,
                   begun, opening, selfTransfer, otherTables>>

\* return { sourceTransaction, targetTransaction }; COMMIT
TfCommit(p) ==
    /\ pc[p] = "tf_commit"
    /\ transactions' = CommittedTransactions(p)
    /\ bankAccounts' = CommittedAccounts(p)
    /\ pend' = [pend EXCEPT ![p] = NoPend]
    /\ Finish(p, By(req[p].session,
                     Returned("transfer", req[p].origin, TransferResult(p))))
    /\ selfTransfer' = (selfTransfer \/ req[p].fromAccountId = req[p].toAccountId)
    /\ UNCHANGED <<transactionsSeq, begun, opening, otherTables>>

\* ------------------------------------------------------------------ failure
\* Any statement of an open db.transaction may be refused by the store (a
\* detected deadlock between two row locks, a lost connection): the wrapper
\* issues ROLLBACK and rethrows.
StmtError(p) ==
    /\ pc[p] \in InTx
    /\ pend' = RolledBack(p)
    /\ Finish(p, By(req[p].session,
                     Thrown(req[p].kind, req[p].origin, "database error")))
    /\ UNCHANGED <<bankAccounts, transactions, transactionsSeq, begun, opening, selfTransfer, otherTables>>

\* ------------------------------------------------------------------ goals
\* res.json(updatedGoal) answers 200; a direct caller gets the resolved value,
\* the updated row or undefined
Updated(origin, goal) ==
    [Returned("addFunds", origin, <<>>) EXCEPT
        !.status = IF origin = "api" THEN "200" ELSE "resolved",
        !.goal = goal]

\* POST /api/goals: userId is the session user's, one autocommit INSERT by
\* storage.createSavingGoal
PostGoals(p) ==
    /\ Free(p)
    /\ Len(savingGoals) < MaxGoals
    /\ \E session \in BOOLEAN, user \in Users, targetAmount \in Targets,
          bodyUserId \in BodyUserIds, currentAmount \in BodyCurrentAmounts,
          completed \in BOOLEAN :
         /\ ensureAuthenticated(session)
         /\ LET body == [userId |-> bodyUserId, targetAmount |-> targetAmount,
                         currentAmount |-> currentAmount, completed |-> completed]
                parsedData == insertSavingGoalSchema(WithUserId(body, user))
                goal == NewGoal(Len(savingGoals) + 1, parsedData.userId,
                                parsedData.targetAmount) IN
              /\ savingGoals' = Append(savingGoals, goal)
              /\ Finish(p, Of(user, By(session,
                     [Returned("createGoal", "api", <<>>) EXCEPT !.goal = <<goal>>])))
    /\ UNCHANGED <<bankAccounts, transactions, transactionsSeq, pend, begun, opening,
                   selfTransfer, pendGoals, journalEntries, aiAdvices>>

\* PATCH /api/goals/:goalId up to the call of storage.updateSavingGoal
PatchGoals(p) ==
    /\ Free(p)
    /\ \E session \in BOOLEAN, user \in Users, goalId \in GoalIds :
         /\ ensureAuthenticated(session)
         /\ LET goal == getSavingGoal(goalId) IN
            IF ~IsUserGoal(goal, user)
            THEN Finish(p, By(session, Forbidden("addFunds"))) /\ begun' = begun
            ELSE /\ Fits
                 /\ \E amount \in GoalAmounts :
                      req' = [req EXCEPT ![p] =
                                [GoalReq("api", goalId, amount)
                                    EXCEPT !.session = session, !.user = user]]
                 /\ pc' = [pc EXCEPT ![p] = "ug_select"]
                 /\ begun' = begun + 1
                 /\ UNCHANGED <<loc, response>>
    /\ UNCHANGED <<bankAccounts, transactions, transactionsSeq, pend, opening,
                   selfTransfer, otherTables>>

\* storage.updateSavingGoal called by any other caller of IStorage
CallUpdateSavingGoal(p) ==
    /\ Free(p)
    /\ Fits
    /\ \E goalId \in GoalIds, amount \in GoalAmounts :
         req' = [req EXCEPT ![p] = GoalReq("storage", goalId, amount)]
    /\ pc' = [pc EXCEPT ![p] = "ug_select"]
    /\ begun' = begun + 1
    /\ UNCHANGED <<bankAccounts, transactions, transactionsSeq, pend, loc, response,
                   opening, selfTransfer, otherTables>>

\* tx.select().from(savingGoals).where(id); if (!goal) return undefined, which
\* commits the empty transaction
UgSelect(p) ==
    /\ pc[p] = "ug_select"
    /\ LET goal == SelectGoal(p, req[p].goalId) IN
         IF goal = <<>>
         THEN Finish(p, By(req[p].session, Updated(req[p].origin, <<>>)))
         ELSE /\ loc' = [loc EXCEPT ![p].goal = goal]
              /\ pc' = [pc EXCEPT ![p] = "ug_update"]
              /\ UNCHANGED <<req, response>>
    /\ UNCHANGED <<bankAccounts, transactions, transactionsSeq, pend, begun, opening,
                   selfTransfer, otherTables>>

\* tx.update(savingGoals).set({currentAmount, completed}).where(id).returning()
UgUpdate(p) ==
    /\ pc[p] = "ug_update"
    /\ ~GoalLockedByOther(p, req[p].goalId)
    /\ LET goal == loc[p].goal[1]
           newAmount == NewAmount(goal.currentAmount, req[p].amount)
           written == [currentAmount |-> newAmount,
                       completed |-> Completed(newAmount, goal.targetAmount)] IN
         /\ pendGoals' = [pendGoals EXCEPT ![p] = Put(@, req[p].goalId, written)]
         /\ loc' = [loc EXCEPT ![p].goal =
                       <<[savingGoals[req[p].goalId] EXCEPT
                             !.currentAmount = written.currentAmount,
                             !.completed = written.completed]>>]
    /\ pc' = [pc EXCEPT ![p] = "ug_commit"]
    /\ UNCHANGED <<bankAccounts, transactions, transactionsSeq, pend, req, response,
                   begun, opening, selfTransfer, savingGoals, journalEntries, aiAdvices>>

\* slip: the deposit is also taken out of every account of the goal's owner
UgCommitDebiting(p) ==
    /\ pc[p] = "ug_commit"
    /\ savingGoals' = CommittedGoals(p)
    /\ bankAccounts' =
          [i \in 1..Len(bankAccounts) |->
              IF bankAccounts[i].userId = savingGoals[req[p].goalId].userId
              THEN [bankAccounts[i] EXCEPT !.balance = @ - req[p].amount]
              ELSE bankAccounts[i]]
    /\ pendGoals' = [pendGoals EXCEPT ![p] = EmptyUpd]
    /\ Finish(p, By(req[p].session, Updated(req[p].origin, loc[p].goal)))
    /\ UNCHANGED <<transactions, transactionsSeq, pend, begun, opening,
                   selfTransfer, journalEntries, aiAdvices>>

\* return updatedGoal; COMMIT
UgCommit(p) ==
    /\ pc[p] = "ug_commit"
    /\ savingGoals' = CommittedGoals(p)
    /\ pendGoals' = [pendGoals EXCEPT ![p] = EmptyUpd]
    /\ Finish(p, By(req[p].session, Updated(req[p].origin, loc[p].goal)))
    /\ UNCHANGED <<bankAccounts, transactions, transactionsSeq, pend, begun, opening,
                   selfTransfer, journalEntries, aiAdvices>>

\* a statement of the open updateSavingGoal transaction is refused by the
\* store: ROLLBACK and rethrow
UgError(p) ==
    /\ pc[p] \in {"ug_select", "ug_update", "ug_commit"}
    /\ pendGoals' = [pendGoals EXCEPT ![p] = EmptyUpd]
    /\ Finish(p, By(req[p].session, Thrown("addFunds", req[p].origin, "database error")))
    /\ UNCHANGED <<bankAccounts, transactions, transactionsSeq, pend, begun, opening,
                   selfTransfer, savingGoals, journalEntries, aiAdvices>>

\* ------------------------------------------------------------------ other routes
\* res.status(401).json({ message: "Unauthorized" }): the same answer on every
\* route, given before the handler and so before any storage call
Unauthorized ==
    [kind |-> "none", status |-> "401", error |-> "Unauthorized", rows |-> <<>>,
     session |-> FALSE, touched |-> FALSE, goal |-> <<>>, user |-> 0, call |-> NoCall]

\* a request without an authenticated session, to any route
Unauthenticated(p) ==
    /\ Free(p)
    /\ \E session \in BOOLEAN, route \in Routes :
         /\ ~ensureAuthenticated(session)
         /\ Finish(p, Unauthorized)
    /\ UNCHANGED <<bankAccounts, transactions, transactionsSeq, pend, begun, opening,
                   selfTransfer, otherTables>>

\* res.json(rows) of a read route: 200; the rows of the body are recorded
\* only for the transaction list that is put together from several reads
Read(kind) == [Returned(kind, "api", <<>>) EXCEPT !.status = "200"]

\* the catch of a read route: 500
ReadFailed(kind) == [Thrown(kind, "api", "database error") EXCEPT !.status = "500"]

\* db.select().from(savingGoals).where(eq(savingGoals.userId, userId))
getSavingGoalsByUserId(userId) ==
    {savingGoals[i] : i \in {j \in 1..Len(savingGoals) : IsOf(userId, savingGoals[j])}}

\* db.select().from(aiAdvices).where(eq(aiAdvices.userId, userId))
\*   .orderBy(desc(aiAdvices.date)), aiAdvices being indexed in the order of
\* the INSERTs
getAiAdvicesByUserId(userId) ==
    Reversed(SelectSeq(aiAdvices, LAMBDA advice : IsOf(userId, advice)))

\* the rows pushed on allTransactions by the for loop over userAccounts, for
\* each result the reads of the accounts' rows may give
RECURSIVE Gathered(_)
Gathered(userAccounts) ==
    IF userAccounts = <<>> THEN {<<>>}
    ELSE {accountTransactions \o others :
             accountTransactions \in getTransactionsByAccountId(Head(userAccounts).id),
             others \in Gathered(Tail(userAccounts))}

\* storage.ts getTransactionsByUserId with no commit between its reads: the
\* results it may hand back
getTransactionsByUserId(userId) ==
    {SortByDate(allTransactions) :
        allTransactions \in UNION {Gathered(userAccounts) :
            userAccounts \in Orderings(getBankAccountsByUserId(userId))}}

\* what the storage read of a read route may hand back
Listed(kind, userId) ==
    CASE kind = "getAccounts" -> Orderings(getBankAccountsByUserId(userId))
      [] kind = "getTransactions" -> getTransactionsByUserId(userId)
      [] kind = "getGoals" -> Orderings(getSavingGoalsByUserId(userId))
      [] kind = "getJournal" -> {getJournalEntriesByUserId(userId)}
      [] kind = "getAdvice" -> {getAiAdvicesByUserId(userId)}

ListKinds == {"getAccounts", "getTransactions", "getGoals", "getJournal", "getAdvice"}

\* the read routes whose handler is one storage read for the session user:
\* GET /api/accounts, /api/transactions, /api/goals, /api/journal, /api/ai/advice
GetOwn(p) ==
    /\ Free(p)
    /\ \E session \in BOOLEAN, user \in Users, kind \in ListKinds :
         /\ ensureAuthenticated(session)
         /\ \E rows \in Listed(kind, user) : Finish(p, By(session, Read(kind)))
    /\ UNCHANGED <<bankAccounts, transactions, transactionsSeq, pend, begun, opening,
                   selfTransfer, otherTables>>

\* routes.ts GET /api/accounts/:accountId/transactions: the ownership test
CanRead(userId, accountId) == IsUserAccount(getBankAccountsByUserId(userId), accountId)

\* GET /api/accounts/:accountId/transactions
GetAccountTransactions(p) ==
    /\ Free(p)
    /\ \E session \in BOOLEAN, user \in Users, accountId \in AccountIds :
         /\ ensureAuthenticated(session)
         /\ IF ~CanRead(user, accountId)
            THEN Finish(p, By(session, Forbidden("getAccountTransactions")))
            ELSE \E rows \in getTransactionsByAccountId(accountId) :
                    Finish(p, By(session, Read("getAccountTransactions")))
    /\ UNCHANGED <<bankAccounts, transactions, transactionsSeq, pend, begun, opening,
                   selfTransfer, otherTables>>

ReadReq(kind, session, user) ==
    [NoReq EXCEPT !.kind = kind, !.origin = "api", !.session = session, !.user = user]

\* GET /api/transactions up to the call of storage.getTransactionsByUserId,
\* for a server that serves other requests between the reads of that call
GetTransactions(p) ==
    /\ Free(p)
    /\ \E session \in BOOLEAN, user \in Users :
         /\ ensureAuthenticated(session)
         /\ req' = [req EXCEPT ![p] = ReadReq("getTransactions", session, user)]
    /\ loc' = [loc EXCEPT ![p].ledger = transactions]
    /\ pc' = [pc EXCEPT ![p] = "gt_accounts"]
    /\ UNCHANGED <<bankAccounts, transactions, transactionsSeq, pend, response,
                   begun, opening, selfTransfer, otherTables>>

\* getTransactionsByUserId: userAccounts = await getBankAccountsByUserId(userId),
\* rows in any order; if (userAccounts.length === 0) return []
GtAccounts(p) ==
    /\ pc[p] = "gt_accounts"
    /\ \E userAccounts \in Orderings(getBankAccountsByUserId(req[p].user)) :
         IF Len(userAccounts) = 0
         THEN Finish(p, Of(req[p].user, By(req[p].session, Read(req[p].kind))))
         ELSE /\ loc' = [loc EXCEPT ![p].userAccounts = userAccounts]
              /\ pc' = [pc EXCEPT ![p] = "gt_rows"]
              /\ UNCHANGED <<req, response>>
    /\ UNCHANGED <<bankAccounts, transactions, transactionsSeq, pend, begun, opening,
                   selfTransfer, otherTables>>

\* one turn of the for loop: await getTransactionsByAccountId(account.id) and
\* push its rows; after the last account, sort and return
GtRows(p) ==
    /\ pc[p] = "gt_rows"
    /\ LET account == Head(loc[p].userAccounts) IN
       \E accountTransactions \in getTransactionsByAccountId(account.id) :
         LET allTransactions == loc[p].allTransactions \o accountTransactions IN
         IF Tail(loc[p].userAccounts) = <<>>
         THEN Finish(p, Of(req[p].user, By(req[p].session,
                        [Read(req[p].kind) EXCEPT
                            !.rows = RowIds(SortByDate(allTransactions))])))
         ELSE /\ loc' = [loc EXCEPT ![p].userAccounts = Tail(@),
                                    ![p].allTransactions = allTransactions]
              /\ UNCHANGED <<pc, req, response>>
    /\ UNCHANGED <<bankAccounts, transactions, transactionsSeq, pend, begun, opening,
                   selfTransfer, otherTables>>

\* a SELECT of getTransactionsByUserId is refused by the store: the route
\* answers 500
ReadError(p) ==
    /\ pc[p] \in {"gt_accounts", "gt_rows"}
    /\ Finish(p, Of(req[p].user, By(req[p].session, ReadFailed(req[p].kind))))
    /\ UNCHANGED <<bankAccounts, transactions, transactionsSeq, pend, begun, opening,
                   selfTransfer, otherTables>>

\* POST /api/journal: userId is the session user's, one autocommit INSERT by
\* storage.createJournalEntry
PostJournal(p) ==
    /\ Free(p)
    /\ Fits
    /\ \E session \in BOOLEAN, user \in Users, mood \in Moods,
          bodyUserId \in BodyUserIds :
         /\ ensureAuthenticated(session)
         /\ LET body == [userId |-> bodyUserId, mood |-> mood]
                parsedData == insertJournalEntrySchema(WithUserId(body, user)) IN
              journalEntries' = Append(journalEntries,
                  [id |-> Len(journalEntries) + 1, userId |-> parsedData.userId,
                   mood |-> parsedData.mood])
         /\ Finish(p, Of(user, By(session, Returned("createJournal", "api", <<>>))))
    /\ begun' = begun + 1
    /\ UNCHANGED <<bankAccounts, transactions, transactionsSeq, pend, opening,
                   selfTransfer, savingGoals, pendGoals, aiAdvices>>

\* POST /api/ai/advice: four reads for the session user, the call of
\* generateFinancialAdvice, then one autocommit INSERT by storage.createAiAdvice
PostAdvice(p) ==
    /\ Free(p)
    /\ Fits
    /\ \E session \in BOOLEAN, user \in Users, call \in ExternalCalls,
          bodyUserId \in BodyUserIds :
         /\ ensureAuthenticated(session)
         /\ LET body == [userId |-> bodyUserId, response |-> "forged"]
                parsedData == insertAiAdviceSchema(WithUserId(body, user))
                entries == getJournalEntriesByUserId(user)
                aiResponse == generateFinancialAdvice(call)
                advice == [id |-> Len(aiAdvices) + 1, userId |-> parsedData.userId,
                           response |-> aiResponse] IN
              /\ aiAdvices' = Append(aiAdvices, advice)
              /\ Finish(p, Of(user, By(session,
                     [Returned("createAdvice", "api", <<advice.id>>) EXCEPT
                         !.call = [mood |-> primaryMood(entries), outcome |-> call]])))
    /\ begun' = begun + 1
    /\ UNCHANGED <<bankAccounts, transactions, transactionsSeq, pend, opening,
                   selfTransfer, savingGoals, pendGoals, journalEntries>>

\* ------------------------------------------------------------------ specifications
Step(p) ==
    \/ PostAccounts(p)
    \/ PostTransactions(p)
    \/ PostTransfer(p)
    \/ CallCreateTransaction(p)
    \/ CallTransferFunds(p)
    \/ CtInsert(p)
    \/ CtSelect(p)
    \/ CtUpdate(p)
    \/ CtCommit(p)
    \/ TfSelectSource(p)
    \/ TfSelectTarget(p)
    \/ TfInsertDebit(p)
    \/ TfInsertCredit(p)
    \/ TfUpdateSource(p)
    \/ TfUpdateTarget(p)
    \/ TfCommit(p)
    \/ StmtError(p)

\* requests served concurrently
Next == \E p \in Procs : Step(p)

Spec == Init /\ [][Next]_vars

\* one request at a time: a request starts only when no other is open
NextSeq == \E p \in Procs : (\A q \in Procs \ {p} : Free(q)) /\ Step(p)

SpecSeq == Init /\ [][NextSeq]_vars

\* only requests that arrive through the routes
StepApi(p) ==
    \/ PostAccounts(p)
    \/ PostTransactions(p)
    \/ PostTransfer(p)
    \/ CtInsert(p)
    \/ CtSelect(p)
    \/ CtUpdate(p)
    \/ CtCommit(p)
    \/ TfSelectSource(p)
    \/ TfSelectTarget(p)
    \/ TfInsertDebit(p)
    \/ TfInsertCredit(p)
    \/ TfUpdateSource(p)
    \/ TfUpdateTarget(p)
    \/ TfCommit(p)
    \/ StmtError(p)

NextApi == \E p \in Procs : StepApi(p)

SpecApi == Init /\ [][NextApi]_vars

\* no other request is open
Alone(p) == \A q \in Procs \ {p} : Free(q)

\* requests through the routes with any body the schemas accept, served one
\* at a time
StepInputs(p) ==
    \/ Alone(p) /\ PostAccountsAny(p)
    \/ Alone(p) /\ PostTransactionsAny(p)
    \/ Alone(p) /\ PostTransferAny(p)
    \/ CtInsert(p)
    \/ CtSelect(p)
    \/ CtUpdate(p)
    \/ CtCommit(p)
    \/ TfSelectSource(p)
    \/ TfSelectTarget(p)
    \/ TfInsertDebit(p)
    \/ TfInsertCredit(p)
    \/ TfUpdateSource(p)
    \/ TfUpdateTarget(p)
    \/ TfCommit(p)
    \/ StmtError(p)

NextInputs == \E p \in Procs : StepInputs(p)

\* every route, with and without a session, requests served one at a time
StepHttp(p) ==
    \/ Alone(p) /\ Unauthenticated(p)
    \/ Alone(p) /\ GetOwn(p)
    \/ Alone(p) /\ GetAccountTransactions(p)
    \/ Alone(p) /\ PostAccounts(p)
    \/ Alone(p) /\ PostTransactionsDated(p)
    \/ Alone(p) /\ PostTransferDated(p)
    \/ Alone(p) /\ PostGoals(p)
    \/ Alone(p) /\ PatchGoals(p)
    \/ Alone(p) /\ PostJournal(p)
    \/ Alone(p) /\ PostAdvice(p)
    \/ CtInsert(p)
    \/ CtSelect(p)
    \/ CtUpdate(p)
    \/ CtCommit(p)
    \/ TfSelectSource(p)
    \/ TfSelectTarget(p)
    \/ TfInsertDebit(p)
    \/ TfInsertCredit(p)
    \/ TfUpdateSource(p)
    \/ TfUpdateTarget(p)
    \/ TfCommit(p)
    \/ StmtError(p)
    \/ UgSelect(p)
    \/ UgUpdate(p)
    \/ UgCommit(p)
    \/ UgError(p)

\* one worker serves the requests
NextHttp == \E p \in {1} : StepHttp(p)

SpecHttp == Init /\ [][NextHttp]_vars

\* the goal-progress updater under concurrent requests
StepGoals(p) ==
    \/ PostGoals(p)
    \/ PatchGoals(p)
    \/ CallUpdateSavingGoal(p)
    \/ UgSelect(p)
    \/ UgUpdate(p)
    \/ UgCommit(p)
    \/ UgError(p)

NextGoals == \E p \in Procs : StepGoals(p)

SpecGoals == Init /\ [][NextGoals]_vars

\* the goal-progress updater with requests served one at a time
StepGoalsSeq(p) ==
    \/ Alone(p) /\ PostGoals(p)
    \/ Alone(p) /\ PatchGoals(p)
    \/ Alone(p) /\ CallUpdateSavingGoal(p)
    \/ UgSelect(p)
    \/ UgUpdate(p)
    \/ UgCommit(p)
    \/ UgError(p)

NextGoalsSeq == \E p \in Procs : StepGoalsSeq(p)

SpecGoalsSeq == Init /\ [][NextGoalsSeq]_vars

SpecInputs == Init /\ [][NextInputs]_vars

\* GET /api/transactions served while transfers are: one request writes, the
\* other reads
StepWrites(p) ==
    \/ PostAccounts(p)
    \/ PostTransferDated(p)
    \/ TfSelectSource(p)
    \/ TfSelectTarget(p)
    \/ TfInsertDebit(p)
    \/ TfInsertCredit(p)
    \/ TfUpdateSource(p)
    \/ TfUpdateTarget(p)
    \/ TfCommit(p)
    \/ StmtError(p)

StepReads(p) ==
    \/ GetTransactions(p)
    \/ GtAccounts(p)
    \/ GtRows(p)
    \/ ReadError(p)

NextReads == StepWrites(1) \/ StepReads(2)

SpecReads == Init /\ [][NextReads]_vars

\* the journals of up to MaxEntries entries, oldest first
Journals ==
    UNION {{[i \in 1..n |-> [id |-> i, userId |-> 1, mood |-> moods[i]]] :
              moods \in [1..n -> AnyMoods]} : n \in 0..MaxEntries}

\* the store holds a journal of user 1 and nothing else
InitMood ==
    /\ bankAccounts = <<>>
    /\ transactions = {}
    /\ transactionsSeq = 0
    /\ pend = [p \in Procs |-> NoPend]
    /\ pc = [p \in Procs |-> "idle"]
    /\ req = [p \in Procs |-> NoReq]
    /\ loc = [p \in Procs |-> NoLoc]
    /\ response = NoResponse
    /\ begun = 0
    /\ opening = <<>>
    /\ selfTransfer = FALSE
    /\ savingGoals = <<>>
    /\ pendGoals = [p \in Procs |-> EmptyUpd]
    /\ journalEntries \in Journals
    /\ aiAdvices = <<>>

\* one POST /api/ai/advice on that store
NextMood == \E p \in {1} : aiAdvices = <<>> /\ PostAdvice(p)

SpecMood == InitMood /\ [][NextMood]_vars

\* ------------------------------------------------------------------ claims
Succeeded(r) == r.status \in {"201", "resolved"}
Failed(r) == r.status \in {"400", "rejected"}

\* the step in which p's transferFunds commits and returns
TransferCommits(p) ==
    /\ pc[p] = "tf_commit"
    /\ pc'[p] = "idle"
    /\ Succeeded(response')

\* the step in which p's createTransaction commits and returns
TransactionCommits(p) ==
    /\ pc[p] = "ct_commit"
    /\ pc'[p] = "idle"
    /\ Succeeded(response')

NewRows == transactions' \ transactions

\* C1: every transfer that succeeds with fromAccountId # toAccountId takes the
\* source balance from its value before the commit to that value minus the
\* amount and the target balance to its value before plus the amount, and the
\* debit row and the credit row it creates both carry the transfer amount.
C1_TransferMovesAmount ==
    [][\A p \in Procs :
         (TransferCommits(p) /\ req[p].fromAccountId # req[p].toAccountId) =>
            LET from == req[p].fromAccountId
                to == req[p].toAccountId
                amount == req[p].amount IN
            /\ bankAccounts'[from].balance = bankAccounts[from].balance - amount
            /\ bankAccounts'[to].balance = bankAccounts[to].balance + amount
            /\ \E d, c \in NewRows :
                 /\ d.type = "debit" /\ d.accountId = from /\ d.amount = amount
                 /\ c.type = "credit" /\ c.accountId = to /\ c.amount = amount]_vars

\* C2: a transfer whose source or target account is missing, or whose amount
\* exceeds the source balance it read, fails: the step that decides it hands
\* the caller an error (400 from the route, a rejection from the storage
\* method), changes no balance and no ledger row, and leaves no row pending.
C2_FailedTransferChangesNothing ==
    [][\A p \in Procs :
         (pc[p] = "tf_selectTarget" /\ pc'[p] # pc[p]) =>
            LET missing == loc[p].sourceAccount = <<>> \/ ~AccountExists(req[p].toAccountId)
                short == loc[p].sourceAccount # <<>>
                         /\ req[p].amount > loc[p].sourceAccount[1].balance IN
            (missing \/ short) =>
                /\ pc'[p] = "idle"
                /\ response'.kind = "transfer"
                /\ response'.status = Failure(req[p].origin)
                /\ response'.error # "none"
                /\ bankAccounts' = bankAccounts
                /\ transactions' = transactions
                /\ transactionsSeq' = transactionsSeq
                /\ pend[p].ins = {} /\ pend'[p] = NoPend]_vars

\* a transfer has just been refused for lack of funds
C2_Witness ==
    /\ response.kind = "transfer"
    /\ Failed(response)
    /\ response.error = "Insufficient funds for transfer"
    /\ bankAccounts # <<>>

RECURSIVE SumAmounts(_)
SumAmounts(S) == IF S = {} THEN 0
                 ELSE LET r == CHOOSE x \in S : TRUE IN r.amount + SumAmounts(S \ {r})

Credits(a) == {r \in transactions : r.accountId = a /\ r.type = "credit"}
Debits(a) == {r \in transactions : r.accountId = a /\ r.type = "debit"}

AllIdle == \A p \in Procs : pc[p] = "idle"

\* C3: whenever no request is open, and every committed movement was a
\* transfer between two different accounts or a single-sided debit or credit
\* with a positive amount, every account's balance equals its opening balance
\* plus the sum of its credit rows minus the sum of its debit rows.
C3_LedgerConsistent ==
    ( /\ AllIdle
      /\ ~selfTransfer
      /\ \A r \in transactions : r.amount > 0 /\ r.type \in {"debit", "credit"} )
    => \A a \in 1..Len(bankAccounts) :
          bankAccounts[a].balance =
              opening[a] + SumAmounts(Credits(a)) - SumAmounts(Debits(a))

\* only transfers between two different accounts have written to the store,
\* and only such transfers are open
OnlyTransfers ==
    /\ \A r \in transactions : r.category = "Transfer"
    /\ ~selfTransfer
    /\ \A q \in Procs :
         /\ req[q].kind # "createTransaction"
         /\ req[q].kind = "transfer" => req[q].fromAccountId # req[q].toAccountId

\* C4: among concurrent transfers, none commits with an amount above the
\* source balance that is current (committed) when it commits, and a commit
\* with a positive amount never takes a non-negative source balance below 0.
C4_NoOverdraw ==
    [][\A p \in Procs :
         (TransferCommits(p) /\ OnlyTransfers) =>
            LET from == req[p].fromAccountId IN
            /\ req[p].amount <= bankAccounts[from].balance
            /\ (req[p].amount > 0 /\ bankAccounts[from].balance >= 0)
                  => bankAccounts'[from].balance >= 0]_vars

\* the four effects of p's transfer, as another request can observe them
DebitVisible(p) ==
    loc[p].sourceTransaction # <<>> /\ loc[p].sourceTransaction[1] \in transactions
CreditVisible(p) ==
    loc[p].targetTransaction # <<>> /\ loc[p].targetTransaction[1] \in transactions

\* C5: a transfer is atomic to readers. While it is open none of its rows is
\* in the committed ledger and no step it takes changes a committed balance
\* or row; the one step that publishes it publishes the debit row, the credit
\* row and both balance writes together; a step in which it fails publishes
\* nothing.
C5_TransferAtomic ==
    /\ [](\A p \in Procs : req[p].kind = "transfer" =>
             ~DebitVisible(p) /\ ~CreditVisible(p))
    /\ [][\A p \in Procs :
            (req[p].kind = "transfer" /\ pc'[p] # pc[p]) =>
               IF TransferCommits(p)
               THEN /\ NewRows = {loc[p].sourceTransaction[1], loc[p].targetTransaction[1]}
                    /\ DOMAIN pend[p].upd = {req[p].fromAccountId, req[p].toAccountId}
                    /\ \A a \in DOMAIN pend[p].upd :
                         bankAccounts'[a].balance = pend[p].upd[a]
               ELSE /\ bankAccounts' = bankAccounts
                    /\ transactions' = transactions
                    /\ (pc'[p] = "idle" => pend'[p] = NoPend)]_vars

\* a transfer was rolled back by a store error after its writes, and the
\* committed state shows none of them
C5_Witness ==
    /\ response.kind = "transfer"
    /\ response.error = "database error"
    /\ transactionsSeq >= 2
    /\ \A r \in transactions : r.id > 2
    /\ \A a \in 1..Len(bankAccounts) : bankAccounts[a].balance = opening[a]
    /\ Len(bankAccounts) = 2

\* C6: the step in which a transfer succeeds adds exactly two rows to the
\* ledger, a debit on the source and a credit on the target with the same
\* amount, and the returned body names exactly these two rows.
C6_TransferCreatesPair ==
    [][\A p \in Procs :
         TransferCommits(p) =>
            /\ Cardinality(NewRows) = 2
            /\ \E d, c \in NewRows :
                 /\ d.type = "debit" /\ d.accountId = req[p].fromAccountId
                 /\ c.type = "credit" /\ c.accountId = req[p].toAccountId
                 /\ d.amount = c.amount
                 /\ response'.rows = <<d.id, c.id>>]_vars

\* a transfer has succeeded and the two rows it returned are in the ledger
C6_Witness ==
    /\ response.kind = "transfer"
    /\ Succeeded(response)
    /\ \E d, c \in transactions :
         <<d.id, c.id>> = response.rows /\ d.type = "debit" /\ c.type = "credit"

\* C7: the step that ends a createTransaction either persists the new row
\* together with the balance update of the row's account, or persists
\* neither.
C7_TransactionAllOrNothing ==
    [][\A p \in Procs :
         (req[p].kind = "createTransaction" /\ pc[p] # "ct_insert" /\ pc'[p] = "idle") =>
            IF loc[p].newTransaction[1] \in transactions'
            THEN /\ AccountExists(req[p].accountId)
                 /\ bankAccounts'[req[p].accountId].balance = loc[p].newBalance
            ELSE /\ transactions' = transactions
                 /\ bankAccounts' = bankAccounts]_vars

\* C8: a createTransaction whose accountId matches no account ends in an
\* error and adds no ledger row.
C8_MissingAccountRejected ==
    [][\A p \in Procs :
         ( /\ req[p].kind = "createTransaction"
           /\ pc'[p] = "idle"
           /\ ~AccountExists(req[p].accountId) ) =>
            /\ Failed(response')
            /\ transactions' = transactions]_vars

\* C9: with requests arriving only through the routes, every ledger row,
\* committed or still pending in an open transaction, names an existing
\* account.
C9_RowsNameAccounts ==
    \A r \in transactions \cup UNION {pend[p].ins : p \in Procs} :
        AccountExists(r.accountId)

\* the ledger holds rows of a transfer and of a single-sided transaction, and
\* a request naming an account the caller does not own was refused
C9_Witness ==
    /\ \E r \in transactions : r.category = "Transfer"
    /\ \E r \in transactions : r.category # "Transfer"
    /\ response.status = "403"

\* C10: a createTransaction on an existing account with amount > 0 adds
\* exactly one row, carrying the given fields, takes that account's balance
\* from its value before the commit to balance - amount for a debit and
\* balance + amount for a credit, and changes no other account.
C10_TransactionApplied ==
    [][\A p \in Procs :
         ( /\ TransactionCommits(p)
           /\ AccountExists(req[p].accountId)
           /\ req[p].amount > 0
           /\ req[p].type \in {"debit", "credit"} ) =>
            LET a == req[p].accountId IN
            /\ Cardinality(NewRows) = 1
            /\ \A r \in NewRows :
                 /\ r.accountId = a
                 /\ r.amount = req[p].amount
                 /\ r.type = req[p].type
                 /\ r.description = <<req[p].description>>
                 /\ r.category = req[p].category
                 /\ r.merchant = req[p].merchant
                 /\ response'.rows = <<r.id>>
            /\ bankAccounts'[a].balance =
                 IF req[p].type = "debit"
                 THEN bankAccounts[a].balance - req[p].amount
                 ELSE bankAccounts[a].balance + req[p].amount
            /\ \A b \in 1..Len(bankAccounts) :
                 b # a => bankAccounts'[b] = bankAccounts[b]
            /\ Len(bankAccounts') = Len(bankAccounts)]_vars

\* the step in which p's request ends, whatever its outcome
Ends(p) == pc[p] # "idle" /\ pc'[p] = "idle"

\* C11: amounts are always stored positive. Every ledger row has amount > 0,
\* and a transaction-create or transfer request whose amount is <= 0 ends in
\* an error with no balance and no ledger row changed.
C11_AmountsPositive ==
    /\ [](\A r \in transactions : r.amount > 0)
    /\ [][\A p \in Procs :
            (Ends(p) /\ req[p].kind \in {"createTransaction", "transfer"}
                     /\ req[p].amount <= 0) =>
               /\ Failed(response')
               /\ transactions' = transactions
               /\ bankAccounts' = bankAccounts]_vars

\* C12: every ledger row has type debit or credit, and a transaction-create
\* request with any other type stores no row and changes no balance.
C12_TypesDebitOrCredit ==
    /\ [](\A r \in transactions : r.type \in {"debit", "credit"})
    /\ [][\A p \in Procs :
            (Ends(p) /\ req[p].kind = "createTransaction"
                     /\ req[p].type \notin {"debit", "credit"}) =>
               /\ transactions' = transactions
               /\ bankAccounts' = bankAccounts]_vars

\* an earlier transfer with the same arguments as p's has committed
TransferredBefore(p) ==
    \E d, c \in transactions :
        /\ d.type = "debit" /\ d.category = "Transfer"
        /\ d.accountId = req[p].fromAccountId /\ d.amount = req[p].amount
        /\ c.type = "credit" /\ c.category = "Transfer"
        /\ c.accountId = req[p].toAccountId /\ c.amount = req[p].amount
        /\ c.id = d.id + 1

\* C17: transfer is not deduplicated. With requests served one at a time, a
\* transfer that succeeds after a transfer with identical arguments has
\* already committed moves the amount again and adds two more rows of its
\* own to the ledger.
C17_TransferNotIdempotent ==
    [][\A p \in Procs :
         ( /\ TransferCommits(p)
           /\ req[p].fromAccountId # req[p].toAccountId
           /\ TransferredBefore(p) ) =>
            LET from == req[p].fromAccountId
                to == req[p].toAccountId IN
            /\ bankAccounts'[from].balance = bankAccounts[from].balance - req[p].amount
            /\ bankAccounts'[to].balance = bankAccounts[to].balance + req[p].amount
            /\ Cardinality(transactions') = Cardinality(transactions) + 2
            /\ transactions \subseteq transactions'
            /\ \A r \in NewRows : r.amount = req[p].amount]_vars

\* two transfers of 1 between the same two accounts have succeeded in a row:
\* four rows, and the amount has moved twice
C17_Witness ==
    /\ AllIdle
    /\ Len(bankAccounts) = 2
    /\ Cardinality(transactions) = 4
    /\ \A r \in transactions : r.category = "Transfer" /\ r.amount = 1
    /\ Cardinality(Debits(1)) = 2 /\ Cardinality(Credits(2)) = 2
    /\ bankAccounts[1].balance = opening[1] - 2
    /\ bankAccounts[2].balance = opening[2] + 2

\* C13: a saving goal's completed flag is true exactly when its currentAmount
\* has reached its targetAmount, in every state, from its creation on.
C13_CompletedIffReached ==
    \A i \in 1..Len(savingGoals) :
        savingGoals[i].completed <=>
            (savingGoals[i].currentAmount >= savingGoals[i].targetAmount)

\* the step in which p's updateSavingGoal commits an update and returns
GoalCommits(p) ==
    /\ pc[p] = "ug_commit"
    /\ pc'[p] = "idle"
    /\ response'.status \in {"200", "resolved"}

C20_GoalsOnlyAccumulate ==
    [][\A p \in Procs :
         (GoalCommits(p) /\ req[p].origin = "api") =>
            savingGoals'[req[p].goalId].currentAmount
                >= savingGoals[req[p].goalId].currentAmount]_vars

\* the committed tables
tables == <<bankAccounts, transactions, savingGoals, journalEntries, aiAdvices>>

\* the step serves a whole request at once: no request is open before or after
AnsweredAtOnce == pc' = pc

\* the resources an open request from a route names belong to its session user
OwnsWhatItNames(r) ==
    /\ r.kind = "createTransaction" =>
          AccountExists(r.accountId) /\ bankAccounts[r.accountId].userId = r.user
    /\ r.kind = "transfer" =>
          /\ AccountExists(r.fromAccountId)
          /\ bankAccounts[r.fromAccountId].userId = r.user
          /\ AccountExists(r.toAccountId)
          /\ bankAccounts[r.toAccountId].userId = r.user
    /\ r.kind = "addFunds" =>
          /\ r.goalId \in 1..Len(savingGoals)
          /\ savingGoals[r.goalId].userId = r.user

\* C15: a transfer, addFunds or transaction-create request naming an account
\* or goal that is not the session user's never gets past its route (every
\* request a route lets through names only resources of its user), and the
\* step that answers 403 changes no account, ledger row or goal and leaves
\* nothing pending.
C15_ForbiddenChangesNothing ==
    /\ [](\A p \in Procs : req[p].origin = "api" => OwnsWhatItNames(req[p]))
    /\ [][(AnsweredAtOnce /\ response'.status = "403") =>
             /\ UNCHANGED tables
             /\ UNCHANGED <<pend, pendGoals, transactionsSeq>>]_vars

\* a transfer between two existing accounts of different users has just been
\* answered 403, with rows in the ledger and a goal in the store
C15_Witness ==
    /\ response.kind = "transfer"
    /\ response.status = "403"
    /\ Len(bankAccounts) = 2
    /\ bankAccounts[1].userId # bankAccounts[2].userId
    /\ transactions # {}
    /\ savingGoals # <<>>

\* C16: a request without an authenticated session is answered 401 on every
\* route: no handler ever runs for it, no storage method is called, and the
\* step that answers it changes no table and leaves nothing pending.
C16_UnauthenticatedGets401 ==
    /\ [](\A p \in Procs : req[p].session)
    /\ [][(AnsweredAtOnce /\ ~response'.session) =>
             /\ response'.status = "401"
             /\ ~response'.touched
             /\ UNCHANGED tables
             /\ UNCHANGED <<pend, pendGoals, transactionsSeq>>]_vars

\* a request has just been answered 401 while accounts, ledger rows and a goal
\* are in the store
C16_Witness ==
    /\ response.status = "401"
    /\ ~response.session
    /\ bankAccounts # <<>>
    /\ transactions # {}
    /\ savingGoals # <<>>

\* C19: ledger rows are immutable and come only from balance mutations. No
\* step removes or changes a committed row, every row added has an id no
\* earlier row has, and rows are added only by the commit of a
\* createTransaction or of a transferFunds.
C19_LedgerImmutable ==
    [][/\ transactions \subseteq transactions'
       /\ \A r \in NewRows : \A o \in transactions : o.id # r.id
       /\ NewRows # {} =>
             \E p \in Procs : TransactionCommits(p) \/ TransferCommits(p)]_vars

\* the ledger holds the row of a createTransaction and, committed after it,
\* the two rows of a transfer
C19_Witness ==
    /\ Cardinality(transactions) = 3
    /\ \E r \in transactions : r.category # "Transfer" /\ r.id = 1
    /\ \E d, c \in transactions :
         d.category = "Transfer" /\ c.category = "Transfer" /\ d.id = 2 /\ c.id = 3
    /\ response.kind = "transfer"

\* C21: the balance of an existing account is changed only by the balance
\* mutations. Every step other than the commit of a createTransaction or of a
\* transferFunds (account creation, goal creation and funding, journal,
\* advice, every GET, every refusal) leaves every existing account as it was
\* and removes none.
C21_BalancesOnlyByEngine ==
    [][(\A p \in Procs : ~TransactionCommits(p) /\ ~TransferCommits(p)) =>
          /\ Len(bankAccounts') >= Len(bankAccounts)
          /\ \A a \in 1..Len(bankAccounts) : bankAccounts'[a] = bankAccounts[a]]_vars

\* a goal has been funded and a journal entry written while two accounts
\* exist, and every balance is still the opening one
C21_Witness ==
    /\ response.kind = "createJournal"
    /\ Len(bankAccounts) = 2
    /\ \A a \in 1..Len(bankAccounts) : bankAccounts[a].balance = opening[a]
    /\ savingGoals # <<>>
    /\ savingGoals[1].currentAmount > 0
    /\ journalEntries # <<>>

\* C22: concurrent goal funding loses no deposit. Every addFunds that
\* succeeds, whatever other addFunds runs beside it, raises the goal's
\* committed currentAmount by its own amount, so that two concurrent deposits
\* a1 and a2 end at initial + a1 + a2, and leaves completed equal to
\* currentAmount >= targetAmount.
C22_NoDepositLost ==
    [][\A p \in Procs :
         GoalCommits(p) =>
            LET before == savingGoals[req[p].goalId]
                after == savingGoals'[req[p].goalId] IN
            /\ after.currentAmount = before.currentAmount + req[p].amount
            /\ after.completed <=> (after.currentAmount >= after.targetAmount)]_vars

RECURSIVE SumBalances(_)
SumBalances(accounts) ==
    IF accounts = <<>> THEN 0
    ELSE accounts[1].balance + SumBalances(Tail(accounts))

\* C26: every POST /api/transfer of a positive amount that succeeds leaves the
\* sum of all account balances as it was, including a request whose
\* fromAccountId equals its toAccountId.
C26_TransferPreservesSum ==
    [][\A p \in Procs :
         (TransferCommits(p) /\ req[p].origin = "api" /\ req[p].amount > 0) =>
            SumBalances(bankAccounts') = SumBalances(bankAccounts)]_vars

\* C27: a single-sided debit is not funds-checked. With requests served one
\* at a time, a createTransaction of type debit on an existing account that
\* the store does not refuse succeeds whatever the amount, also above the
\* balance, and leaves the balance at balance - amount, possibly negative;
\* the only error a createTransaction ends in is the store's, and
\* "Insufficient funds" is only ever the outcome of a transfer.
C27_DebitNotFundsChecked ==
    /\ [](response.error = "Insufficient funds for transfer" => response.kind = "transfer")
    /\ [][\A p \in Procs :
            ( /\ Ends(p)
              /\ req[p].kind = "createTransaction"
              /\ req[p].type = "debit"
              /\ AccountExists(req[p].accountId) ) =>
               \/ /\ TransactionCommits(p)
                  /\ bankAccounts'[req[p].accountId].balance =
                        bankAccounts[req[p].accountId].balance - req[p].amount
               \/ /\ Failed(response')
                  /\ response'.error = "database error"
                  /\ bankAccounts' = bankAccounts]_vars

\* a debit of 2 on an account holding 1 has succeeded and left it at -1
C27_Witness ==
    /\ response.kind = "createTransaction"
    /\ Succeeded(response)
    /\ \E r \in transactions :
         /\ <<r.id>> = response.rows
         /\ r.type = "debit"
         /\ r.amount = 2
         /\ AccountExists(r.accountId)
         /\ opening[r.accountId] = 1
         /\ bankAccounts[r.accountId].balance = -1

\* C28: the funds check is strict. With requests served one at a time, a
\* transfer between two existing accounts that the store does not refuse is
\* refused for insufficient funds exactly when its amount is above the source
\* balance, and a transfer of exactly the source balance to another account
\* succeeds and leaves the source at 0.
C28_FundsCheckStrict ==
    [][\A p \in Procs :
         /\ ( /\ pc[p] = "tf_selectTarget" /\ pc'[p] # pc[p]
              /\ AccountExists(req[p].fromAccountId)
              /\ AccountExists(req[p].toAccountId)
              /\ response'.error # "database error" ) =>
               ( (pc'[p] = "idle" /\ response'.error = "Insufficient funds for transfer")
                 <=> req[p].amount > bankAccounts[req[p].fromAccountId].balance )
         /\ ( /\ Ends(p)
              /\ req[p].kind = "transfer"
              /\ pc[p] = "tf_commit"
              /\ req[p].fromAccountId # req[p].toAccountId
              /\ req[p].amount = bankAccounts[req[p].fromAccountId].balance ) =>
               \/ TransferCommits(p) /\ bankAccounts'[req[p].fromAccountId].balance = 0
               \/ response'.error = "database error"]_vars

\* a transfer of the whole source balance has succeeded and the source
\* account holds 0
C28_Witness ==
    /\ response.kind = "transfer"
    /\ Succeeded(response)
    /\ \E d \in transactions :
         /\ d.id = response.rows[1]
         /\ d.amount = opening[d.accountId]
         /\ bankAccounts[d.accountId].balance = 0
         /\ Cardinality(transactions) = 2

\* the step in which a POST /api/ai/advice is answered
AdviceAnswered == pc' = pc /\ begun' # begun /\ response'.kind = "createAdvice"

\* a call of getTransactionsByUserId hands its rows back in this step
ListsTransactions(p) ==
    /\ pc[p] \in {"gt_accounts", "gt_rows"} /\ pc'[p] = "idle"
    /\ response'.status = "200"

\* the ledger rows of the accounts the user owns, out of the given rows
LedgerOfUser(userId, rows) ==
    {r \in rows : /\ AccountExists(r.accountId)
                  /\ bankAccounts[r.accountId].userId = userId}

\* C23: getTransactionsByUserId returns exactly the ledger entries of the
\* accounts the user owns, each once, newest-first, and nothing for a user
\* without accounts. Of a call that other requests may commit beside, this is
\* read as: each entry that was in the ledger when the call began is
\* returned, each returned entry is in the ledger when the call returns, and
\* of the entries one transaction committed either all are returned or none,
\* since the ledger never held some of them without the others.
C23_UserTransactionsExact ==
    [][\A p \in Procs : ListsTransactions(p) =>
          LET rows == response'.rows
              ids == {rows[i] : i \in 1..Len(rows)}
              before == LedgerOfUser(req[p].user, loc[p].ledger)
              after == LedgerOfUser(req[p].user, transactions)
              Row(id) == CHOOSE r \in after : r.id = id
          IN  /\ \A i, j \in 1..Len(rows) : i # j => rows[i] # rows[j]
              /\ {r.id : r \in before} \subseteq ids
              /\ ids \subseteq {r.id : r \in after}
              /\ ids \subseteq {r.id : r \in after} =>
                    /\ \A i, j \in 1..Len(rows) :
                          i < j => Row(rows[i]).date >= Row(rows[j]).date
                    /\ \A r1, r2 \in after :
                          r1.date = r2.date => (r1.id \in ids <=> r2.id \in ids)
              /\ getBankAccountsByUserId(req[p].user) = {} => rows = <<>>]_vars

\* C24: when the external text-generation call throws, or its output cannot
\* be parsed, generateFinancialAdvice hands back the fixed apology instead of
\* raising, and POST /api/ai/advice persists exactly one advice record, whose
\* response is that apology, and answers 201 with it.
C24_FailedCallGivesApology ==
    [][(AdviceAnswered /\ response'.call.outcome \in {"throws", "unparsable"}) =>
          /\ response'.status = "201"
          /\ response'.error = "none"
          /\ Len(aiAdvices') = Len(aiAdvices) + 1
          /\ SubSeq(aiAdvices', 1, Len(aiAdvices)) = aiAdvices
          /\ aiAdvices'[Len(aiAdvices')].response = Apology
          /\ response'.rows = <<aiAdvices'[Len(aiAdvices')].id>>]_vars

\* the external call has thrown and the request was answered 201 with the
\* stored apology, for a user who has a journal entry
C24_Witness ==
    /\ response.kind = "createAdvice"
    /\ response.call.outcome = "throws"
    /\ response.status = "201"
    /\ aiAdvices # <<>>
    /\ aiAdvices[Len(aiAdvices)].response = Apology
    /\ getJournalEntriesByUserId(response.user) # <<>>

\* the five most recent of a user's journal entries, newest first
FiveMostRecent(userId) ==
    LET entries == getJournalEntriesByUserId(userId) IN
    [i \in 1..(IF Len(entries) < 5 THEN Len(entries) ELSE 5) |-> entries[i]]

Occurrences(mood, entries) ==
    Cardinality({i \in 1..Len(entries) : entries[i].mood = mood})

MostFrequent(entries) ==
    {entries[i].mood : i \in {j \in 1..Len(entries) :
        \A k \in 1..Len(entries) :
            Occurrences(entries[j].mood, entries) >= Occurrences(entries[k].mood, entries)}}

FirstAt(mood, entries) ==
    CHOOSE i \in 1..Len(entries) :
        entries[i].mood = mood /\ \A j \in 1..(i - 1) : entries[j].mood # mood

C29_CreatedRowsOwnedByCaller ==
    [][/\ Len(bankAccounts') # Len(bankAccounts) =>
             /\ Len(bankAccounts') = Len(bankAccounts) + 1
             /\ response'.session /\ response'.user \in Users
             /\ bankAccounts'[Len(bankAccounts')].userId = response'.user
       /\ Len(savingGoals') # Len(savingGoals) =>
             /\ Len(savingGoals') = Len(savingGoals) + 1
             /\ response'.session /\ response'.user \in Users
             /\ savingGoals'[Len(savingGoals')].userId = response'.user
             /\ savingGoals'[Len(savingGoals')].currentAmount = 0
             /\ savingGoals'[Len(savingGoals')].completed = FALSE
       /\ Len(journalEntries') # Len(journalEntries) =>
             /\ Len(journalEntries') = Len(journalEntries) + 1
             /\ response'.session /\ response'.user \in Users
             /\ journalEntries'[Len(journalEntries')].userId = response'.user
       /\ Len(aiAdvices') # Len(aiAdvices) =>
             /\ Len(aiAdvices') = Len(aiAdvices) + 1
             /\ response'.session /\ response'.user \in Users
             /\ aiAdvices'[Len(aiAdvices')].userId = response'.user]_vars

\* each of the four tables holds a row, of one user or the other, and the
\* request answered last created an advice record for user 2
C29_Witness ==
    /\ bankAccounts # <<>> /\ savingGoals # <<>>
    /\ journalEntries # <<>> /\ aiAdvices # <<>>
    /\ bankAccounts[1].userId = 1
    /\ savingGoals[1].userId = 2
    /\ journalEntries[1].userId = 1
    /\ response.kind = "createAdvice" /\ response.user = 2
    /\ aiAdvices[Len(aiAdvices)].userId = 2

\* the user a listed row belongs to: the owner of the account of a ledger
\* row, the userId of any other row
RowOwner(kind, row) ==
    IF kind = "getTransactions"
    THEN IF AccountExists(row.accountId) THEN bankAccounts[row.accountId].userId ELSE 0
    ELSE row.userId

\* the rows of an account in the ledger, which fix the lists that
\* getTransactionsByAccountId may hand back
LedgerOf(accountId) == {r \in transactions : r.accountId = accountId}

\* all that the GET endpoints may answer a user, told by the rows the lists
\* are made of: the rows of the user in each table and, for every account id,
\* the ledger rows of the account, or nothing where the route answers 403
View(user) ==
    [accounts |-> getBankAccountsByUserId(user),
     goals |-> getSavingGoalsByUserId(user),
     journal |-> getJournalEntriesByUserId(user),
     advice |-> getAiAdvicesByUserId(user),
     byAccount |-> [accountId \in AccountIds |->
                       IF CanRead(user, accountId) THEN {LedgerOf(accountId)} ELSE {}]]

\* the step is one of a request of the user: of a request in service, or the
\* whole of a request served in one step
StepOf(user) ==
    \/ \E p \in Procs : pc[p] # "idle" /\ req[p].user = user
    \/ pc' = pc /\ req' = req /\ response'.user = user

\* C30: reads are isolated per user. Whatever a GET endpoint may answer a
\* user holds only rows of that user (ledger rows: of the user's accounts);
\* the transactions of an account are listed only for its owner, any other
\* user is answered 403 without rows; and what the GET endpoints answer a
\* user changes only in a step of a request of that user (the answers are
\* read off the tables, so that only a step that changes a table counts).
C30_ReadsIsolated ==
    /\ [](\A user \in Users :
            /\ \A kind \in ListKinds : \A rows \in Listed(kind, user) :
                  \A i \in 1..Len(rows) : RowOwner(kind, rows[i]) = user
            /\ \A accountId \in AccountIds :
                  CanRead(user, accountId) =>
                     /\ AccountExists(accountId)
                     /\ bankAccounts[accountId].userId = user)
    /\ [][/\ response'.status = "403" => response'.rows = <<>>
          /\ <<bankAccounts, transactions, otherTables>>'
                # <<bankAccounts, transactions, otherTables>> =>
                \A user \in Users : View(user)' # View(user) => StepOf(user)]_vars

\* each user owns an account with a ledger row, each is refused the list of
\* the other's account, the two are answered different lists, and the last
\* request was refused a list
C30_Witness ==
    /\ Len(bankAccounts) = 2
    /\ bankAccounts[1].userId = 1 /\ bankAccounts[2].userId = 2
    /\ \E t1, t2 \in transactions : t1.accountId = 1 /\ t2.accountId = 2
    /\ ~CanRead(1, 2) /\ ~CanRead(2, 1)
    /\ View(1) # View(2)
    /\ response.kind = "getAccountTransactions" /\ response.status = "403"

====
